---------------------------- MODULE Spec2Model ----------------------------
(***************************************************************************)
(* A model of tcxaet.py: the lap-analysis pipeline                         *)
(*                                                                         *)
(*   read_tcx_files -> parse_tcx_lap -> parse_laps -> csv_output           *)
(*                                                                         *)
(* Values.  Python floats are exact rationals [n, d]; a decimal text of    *)
(* the TCX file (TotalTimeSeconds, DistanceMeters) is an integer count of  *)
(* tenths; a Time text is an integer count of seconds and a pandas         *)
(* Timestamp an integer count of half-second ticks (pandas counts          *)
(* nanoseconds; halving the span of second-resolution stamps is exact      *)
(* there as it is here).  A Python str is a sequence of one-character     *)
(* strings where its characters are computed (the pace string), and a     *)
(* TLA+ string where it is only copied (file names, column labels).        *)
(* `/` is Python's: a zero divisor raises ZeroDivisionError.               *)
(***************************************************************************)
EXTENDS Integers, Sequences, FiniteSets, TLC

VARIABLES args, fs, file_list, pc, idx, all_laps, laps, all_laps_data,
          first_half, second_half, stderr, stdout, fault

vars == <<args, fs, file_list, pc, idx, all_laps, laps, all_laps_data,
          first_half, second_half, stderr, stdout, fault>>

---------------------------------------------------------------------------
(* Sequences *)

Last(s) == s[Len(s)]

Range(s) == {s[k] : k \in 1..Len(s)}

RECURSIVE SeqSum(_)
SeqSum(s) == IF s = <<>> THEN 0 ELSE Head(s) + SeqSum(Tail(s))

SeqMax(s) == CHOOSE v \in Range(s) : \A w \in Range(s) : w <= v

SeqMin(s) == CHOOSE v \in Range(s) : \A w \in Range(s) : v <= w

---------------------------------------------------------------------------
(* Python floats, as exact rationals in lowest terms with d > 0 *)

Abs(a) == IF a < 0 THEN -a ELSE a

RECURSIVE GCD(_, _)
GCD(a, b) == IF b = 0 THEN a ELSE GCD(b, a % b)

Rat(a, b) ==
    LET g == GCD(Abs(a), b)
    IN  [n |-> a \div g, d |-> b \div g]

ToRat(a) == [n |-> a, d |-> 1]

RatMul(x, y) ==
    LET g1 == GCD(Abs(x.n), y.d)
        g2 == GCD(Abs(y.n), x.d)
    IN  [n |-> (x.n \div g1) * (y.n \div g2), d |-> (x.d \div g2) * (y.d \div g1)]

ZeroDivision(y) == y.n = 0

\* x / y for a divisor that is not zero
RatDiv(x, y) ==
    IF y.n > 0 THEN RatMul(x, [n |-> y.d, d |-> y.n])
    ELSE RatMul(x, [n |-> -y.d, d |-> -y.n])

RatSub(x, y) ==
    LET g == GCD(x.d, y.d)
    IN  Rat(x.n * (y.d \div g) - y.n * (x.d \div g), x.d * (y.d \div g))

\* math.floor of a float that is not negative
RatFloor(x) == x.n \div x.d

\* round() of a float that is not negative: to the nearest integer, a tie to the even one
RatRound(x) ==
    LET q == x.n \div x.d
        r == x.n % x.d
    IN  IF 2 * r < x.d THEN q
        ELSE IF 2 * r > x.d THEN q + 1
        ELSE IF q % 2 = 0 THEN q ELSE q + 1

---------------------------------------------------------------------------
(* Python str of computed characters *)

Digit(k) == CASE k = 0 -> "0" [] k = 1 -> "1" [] k = 2 -> "2" [] k = 3 -> "3"
              [] k = 4 -> "4" [] k = 5 -> "5" [] k = 6 -> "6" [] k = 7 -> "7"
              [] k = 8 -> "8" [] k = 9 -> "9"

\* str(k) of an int that is not negative
RECURSIVE IntStr(_)
IntStr(k) == IF k < 10 THEN <<Digit(k)>> ELSE Append(IntStr(k \div 10), Digit(k % 10))

RECURSIVE Zfill(_, _)
Zfill(s, width) == IF Len(s) >= width THEN s ELSE Zfill(<<"0">> \o s, width)

---------------------------------------------------------------------------
(* Constants of the program *)

\* METERS2MILES = 1609.34
METERS2MILES == Rat(160934, 100)

\* const = 12 of the --treadmill option
TREADMILL_CONST == 12

\* The summary projection of csv_output
SummaryColumns ==
    <<"Filename", "Beginning time", "End time", "Duration", "1st/2nd half drift",
      "Avg. BPM", "1st half avg. BPM", "2nd half avg. BPM", "1st/2nd hald BPM-only drift">>

\* The keys of a lap_row in the order parse_laps assigns them
RowKeys ==
    <<"Filename", "Beginning time", "End time", "Duration",
      "Total distance", "# Trackpoints", "Total time", "Avg. BPM",
      "Speed (m/s)", "Pace (min:mi)", "Trackpoints", "Halftime",
      "1st half distance", "1st half speed (m/s)", "1st half pace (min:mi)",
      "1st half avg. BPM", "1st half speed/avg. BPM ratio",
      "2nd half distance", "2nd half speed (m/s)", "2nd half pace (min:mi)",
      "2nd half avg. BPM", "2nd half speed/avg. BPM ratio",
      "1st/2nd half drift", "1st/2nd hald BPM-only drift">>

KeyIndex(key) == CHOOSE k \in 1..Len(RowKeys) : RowKeys[k] = key

---------------------------------------------------------------------------
(* Conversions *)

\* int(float(text)) of a decimal text that is not negative
IntOfFloatText(tenths) == tenths \div 10

\* float(text)
FloatOfText(tenths) == Rat(tenths, 10)

\* pd.to_datetime(text)
to_datetime(seconds) == 2 * seconds

\* ntpath.basename
basename(path) == Last(path)

Truthy(treadmill) == treadmill.set /\ treadmill.pace # 0

NoTreadmill == [set |-> FALSE, pace |-> 0]

\* The --treadmill option as argparse leaves it and the top-level `if` converts it:
\* None when absent, const when given bare, float(text) when given a value
TreadmillOption(given, text) ==
    IF ~given THEN NoTreadmill
    ELSE IF text = <<>> THEN [set |-> TRUE, pace |-> TREADMILL_CONST]
    ELSE [set |-> TRUE, pace |-> text[1]]

meter_sec_2_min_miles(n) ==
    LET miles_a_minute == RatMul(RatDiv(n, METERS2MILES), ToRat(60))
    IN  IF miles_a_minute.n = 0 THEN ToRat(0) ELSE RatDiv(ToRat(1), miles_a_minute)

\* A conversion that takes the pace for seconds a mile
min_miles2meter_sec_no_minutes(n) ==
    RatDiv(ToRat(1), RatDiv(ToRat(n), METERS2MILES))

min_miles2meter_sec(n) ==
    LET secs_per_meter == RatDiv(RatMul(ToRat(n), ToRat(60)), METERS2MILES)
    IN  RatDiv(ToRat(1), secs_per_meter)

\* str(timedelta) is [D day[s], ]H:MM:SS[.ffffff]; split(":") leaves the minutes
\* field second to last and the seconds, with their fraction, last
mil_min_val_to_mil_min_string(val) ==
    IF val.n = 0 THEN <<"0", "0", ":", "0", "0">>
    ELSE LET delta   == RatMul(val, ToRat(60))
             whole   == RatFloor(delta)
             minutes == (whole \div 60) % 60
             seconds == RatSub(delta, ToRat(60 * (whole \div 60)))
         IN  Zfill(IntStr(minutes), 2) \o <<":">> \o Zfill(IntStr(RatRound(seconds)), 2)

---------------------------------------------------------------------------
(* The Time Localizer: timezonefinder and pytz *)

\* A pytz zone: its standard offset from UTC, and the instant (UTC) from which its
\* daylight-saving offset applies.  Offsets and instants are counts of ticks.
Zones ==
    [west |-> [zone |-> "America/Chicago", std |-> -12, dst |-> -10, dst_from |-> 3],
     east |-> [zone |-> "Asia/Kolkata", std |-> 11, dst |-> 11, dst_from |-> 0]]

\* TimezoneFinder().timezone_at(lng, lat)
timezone_at(lng, lat) == IF lng < 0 THEN Zones.west ELSE Zones.east

\* A datetime64 of the index: UTC, with no tzinfo
Naive(t) == [wall |-> t, tzinfo |-> [zone |-> "", utcoffset |-> 0]]

\* pytz.utc.localize(dt).astimezone(pytz.timezone(...)): the wall clock of the zone
\* and the tzinfo of the offset in force at that instant
UTC_datetime2local(dt, coords) ==
    LET z   == timezone_at(coords[1], coords[2])
        off == IF dt.wall >= z.dst_from THEN z.dst ELSE z.std
    IN  [wall |-> dt.wall + off, tzinfo |-> [zone |-> z.zone, utcoffset |-> off]]

\* end - begin of two datetimes: wall clocks when they share their tzinfo, UTC
\* instants otherwise
DatetimeSub(e, b) ==
    IF e.tzinfo = b.tzinfo THEN e.wall - b.wall
    ELSE (e.wall - e.tzinfo.utcoffset) - (b.wall - b.tzinfo.utcoffset)

\* A localizer that converts the beginning time only
get_lap_times_begin_only(lap_data) ==
    LET values   == lap_data.Trackpoints_series
        utc_b    == Naive(values[1].Time)
        utc_e    == Naive(Last(values).Time)
        convert  == lap_data.Lap_coords # <<>> /\ args.local_time
        beginning_time == IF convert THEN UTC_datetime2local(utc_b, lap_data.Lap_coords)
                          ELSE utc_b
    IN  <<beginning_time, utc_e, DatetimeSub(utc_e, beginning_time)>>

get_lap_times_and_duration(lap_data) ==
    LET values   == lap_data.Trackpoints_series
        utc_b    == Naive(values[1].Time)
        utc_e    == Naive(Last(values).Time)
        convert  == lap_data.Lap_coords # <<>> /\ args.local_time
        beginning_time == IF convert THEN UTC_datetime2local(utc_b, lap_data.Lap_coords)
                          ELSE utc_b
        end_time == IF convert THEN UTC_datetime2local(utc_e, lap_data.Lap_coords)
                    ELSE utc_e
    IN  <<beginning_time, end_time, DatetimeSub(end_time, beginning_time)>>

---------------------------------------------------------------------------
(* The time-indexed DataFrame of a lap, and the Temporal Splitter *)

\* pd.DataFrame({'Bpm': Bpm, 'Distance': Distance}, index = Time), lengths agreeing
DataFrame(Bpm, Distance, Time) ==
    [k \in 1..Len(Time) |-> [Time |-> Time[k], Bpm |-> Bpm[k], Distance |-> Distance[k]]]

Index(series) == [k \in 1..Len(series) |-> series[k].Time]

Column(series, name) == [k \in 1..Len(series) |-> series[k][name]]

\* Series.mean()
Mean(values) == Rat(SeqSum(values), Len(values))

\* searchsorted(v, side = 'right') on a sorted index: positions lo..hi, from 0
RECURSIVE SearchSortedRight(_, _, _, _)
SearchSortedRight(index, v, lo, hi) ==
    IF lo >= hi THEN lo
    ELSE LET mid == (lo + hi) \div 2
         IN  IF v < index[mid + 1] THEN SearchSortedRight(index, v, lo, mid)
             ELSE SearchSortedRight(index, v, mid + 1, hi)

\* searchsorted(v, side = 'left')
RECURSIVE SearchSortedLeft(_, _, _, _)
SearchSortedLeft(index, v, lo, hi) ==
    IF lo >= hi THEN lo
    ELSE LET mid == (lo + hi) \div 2
         IN  IF index[mid + 1] < v THEN SearchSortedLeft(index, v, mid + 1, hi)
             ELSE SearchSortedLeft(index, v, lo, mid)

\* A truncation that leaves the sample stamped `after` out
truncate_before(series, after) ==
    SubSeq(series, 1, SearchSortedLeft(Index(series), after, 0, Len(series)))

\* series.truncate(after = t)
truncate(series, after) ==
    SubSeq(series, 1, SearchSortedRight(Index(series), after, 0, Len(series)))

\* series[start : stop], a slice by label: both ends included
SliceByLabel(series, start, stop) ==
    SubSeq(series, SearchSortedLeft(Index(series), start, 0, Len(series)) + 1,
           SearchSortedRight(Index(series), stop, 0, Len(series)))

lap_halftime_value(lap) ==
    LET index == Index(lap.Trackpoints_series)
    IN  SeqMin(index) + ((SeqMax(index) - SeqMin(index)) \div 2)

FirstHalf(lap) == truncate(lap.Trackpoints_series, lap_halftime_value(lap))

SecondHalf(lap) ==
    SliceByLabel(lap.Trackpoints_series, lap_halftime_value(lap),
                 SeqMax(Index(lap.Trackpoints_series)))

---------------------------------------------------------------------------
(* The Track Extractor *)

\* A Lap element, as the xpath queries of parse_tcx_lap see it: the texts of its
\* Position, TotalTimeSeconds, DistanceMeters (the lap's own, then the trackpoints'),
\* HeartRateBpm/Value and Time nodes, in document order
RawLap(positions, total, bpm, distance, time) ==
    [Positions |-> positions, TotalTimeSeconds |-> total, LapDistance |-> 0,
     TrackDistance |-> distance, HeartRateBpm |-> bpm, Time |-> time]

NoCoordinates == <<"Lap description has no coordinates">>

\* len(Bpm) != len(Distance) != len(Time), a chained comparison
LengthCheckRaises(a, b, c) == a # b /\ b # c

\* The DataFrame constructor raises ValueError unless columns and index agree in length
DataFrameRaises(a, b, c) == ~(a = b /\ b = c)

\* The lap_data dictionary of one lap
LapData(filename, lap) ==
    LET Bpm      == lap.HeartRateBpm
        Distance == [k \in 1..Len(lap.TrackDistance) |-> IntOfFloatText(lap.TrackDistance[k])]
        Time     == [k \in 1..Len(lap.Time) |-> to_datetime(lap.Time[k])]
    IN  [Lap_coords         |-> IF lap.Positions # <<>> THEN lap.Positions[1] ELSE <<>>,
         Filename           |-> filename,
         TotalTimeSeconds   |-> IntOfFloatText(lap.TotalTimeSeconds),
         DistanceMeters     |-> Tail([k \in 1..Len(lap.TrackDistance) + 1 |->
                                        IF k = 1 THEN FloatOfText(lap.LapDistance)
                                        ELSE FloatOfText(lap.TrackDistance[k - 1])]),
         Trackpoints_series |-> DataFrame(Bpm, Distance, Time)]

---------------------------------------------------------------------------
(* The Metric Calculator: the try body of parse_laps for one lap *)

NoException == "none"

\* A handler that lets the exception through
CaughtNothing(exc) == FALSE

\* except ZeroDivisionError
Caught(exc) == exc = "ZeroDivisionError"

\* A row that is not emptied between laps: it keeps the keys of the lap before
AppendRowNotReset(data, lap_row) ==
    Append(data, IF data = <<>> THEN lap_row ELSE lap_row @@ Last(data))

\* The rows appended so far, and the one of this lap
AppendRow(data, lap_row) == Append(data, lap_row)

\* The lap_row the try body leaves, the exception that ended it (if any), and
\* whether it reached the assignments of first_half and of second_half
TryBody(lap) ==
    LET series     == lap.Trackpoints_series
        times      == get_lap_times_and_duration(lap)
        treadmill  == Truthy(args.treadmill)
        dummy      == min_miles2meter_sec(args.treadmill.pace)
        total_distance == Last(series).Distance - series[1].Distance
        total_time == lap.TotalTimeSeconds
        half_time  == Rat(total_time, 2)
        speed      == IF ~treadmill THEN RatDiv(ToRat(total_distance), ToRat(total_time))
                      ELSE dummy
        h1         == FirstHalf(lap)
        distance1  == SeqMax(Column(h1, "Distance")) - SeqMin(Column(h1, "Distance"))
        speed1     == IF ~treadmill THEN RatDiv(ToRat(distance1), half_time) ELSE dummy
        bpm1       == Mean(Column(h1, "Bpm"))
        ratio1     == RatDiv(speed1, bpm1)
        h2         == SecondHalf(lap)
        distance2  == SeqMax(Column(h2, "Distance")) - SeqMin(Column(h2, "Distance"))
        speed2     == IF ~treadmill THEN RatDiv(ToRat(distance2), half_time) ELSE dummy
        bpm2       == Mean(Column(h2, "Bpm"))
        ratio2     == RatDiv(speed2, bpm2)
        Value(key) ==
            CASE key = "Filename"        -> lap.Filename
              [] key = "Beginning time"  -> times[1]
              [] key = "End time"        -> times[2]
              [] key = "Duration"        -> times[3]
              [] key = "Total distance"  -> total_distance
              [] key = "# Trackpoints"   -> 2 * Len(series)
              [] key = "Total time"      -> total_time
              [] key = "Avg. BPM"        -> Mean(Column(series, "Bpm"))
              [] key = "Speed (m/s)"     -> speed
              [] key = "Pace (min:mi)"   -> mil_min_val_to_mil_min_string(meter_sec_2_min_miles(speed))
              [] key = "Trackpoints"     -> series
              [] key = "Halftime"        -> lap_halftime_value(lap)
              [] key = "1st half distance"      -> distance1
              [] key = "1st half speed (m/s)"   -> speed1
              [] key = "1st half pace (min:mi)" -> mil_min_val_to_mil_min_string(meter_sec_2_min_miles(speed1))
              [] key = "1st half avg. BPM"      -> bpm1
              [] key = "1st half speed/avg. BPM ratio" -> ratio1
              [] key = "2nd half distance"      -> distance2
              [] key = "2nd half speed (m/s)"   -> speed2
              [] key = "2nd half pace (min:mi)" -> mil_min_val_to_mil_min_string(meter_sec_2_min_miles(speed2))
              [] key = "2nd half avg. BPM"      -> bpm2
              [] key = "2nd half speed/avg. BPM ratio" -> ratio2
              [] key = "1st/2nd half drift"     -> RatDiv(RatSub(ratio2, ratio1), ratio1)
              [] key = "1st/2nd hald BPM-only drift" -> RatDiv(RatSub(bpm2, bpm1), bpm1)
        \* The divisions of the try body: whether the one that computes `key` raises
        Raises(key) ==
            CASE key = "Speed (m/s)"            -> ~treadmill /\ ZeroDivision(ToRat(total_time))
              [] key = "1st half speed (m/s)"   -> ~treadmill /\ ZeroDivision(half_time)
              [] key = "1st half speed/avg. BPM ratio" -> ZeroDivision(bpm1)
              [] key = "2nd half speed (m/s)"   -> ~treadmill /\ ZeroDivision(half_time)
              [] key = "2nd half speed/avg. BPM ratio" -> ZeroDivision(bpm2)
              [] key = "1st/2nd half drift"     -> ZeroDivision(ratio1)
              [] key = "1st/2nd hald BPM-only drift" -> ZeroDivision(bpm1)
              [] OTHER -> FALSE
        \* the first division that raises ends the body: none after it is evaluated
        failing    == {k \in 1..Len(RowKeys) :
                          /\ \A j \in 1..(k - 1) : ~Raises(RowKeys[j])
                          /\ Raises(RowKeys[k])}
        assigned   == IF failing = {} THEN Len(RowKeys) ELSE (CHOOSE k \in failing : TRUE) - 1
    IN  IF series = <<>>
        THEN [lap_row |-> [key \in {"Filename"} |-> lap.Filename], exc |-> "IndexError",
              first_half |-> FALSE, second_half |-> FALSE]
        ELSE [lap_row |-> [key \in {RowKeys[k] : k \in 1..assigned} |-> Value(key)],
              exc |-> IF failing = {} THEN NoException ELSE "ZeroDivisionError",
              first_half  |-> assigned >= KeyIndex("Halftime"),
              second_half |-> assigned >= KeyIndex("1st half speed/avg. BPM ratio")]

\* print(e) and the note that follows it
DivisionByZero == <<"division by zero">>

SkippingLap(i) == <<"Lap", i, "has 0 distance and/or 0 time. Skipping">>

---------------------------------------------------------------------------
(* The Report Assembler *)

\* The columns of pd.DataFrame(all_laps_data): the keys of the rows, in the order
\* they are first met
RECURSIVE FrameColumns(_)
FrameColumns(rows) ==
    IF rows = <<>> THEN <<>>
    ELSE LET before == FrameColumns(SubSeq(rows, 1, Len(rows) - 1))
             new(key) == key \in DOMAIN Last(rows) /\ key \notin Range(before)
         IN  before \o SelectSeq(RowKeys, new)

NaN == ""

AllColumns == [given |-> FALSE, labels |-> <<>>]

\* DataFrame.to_csv(columns, header, index_label): a label that is no column of the
\* frame raises KeyError; a row that lacks a column's key has NaN there, written empty
to_csv_raises(rows, columns) ==
    columns.given /\ \E j \in 1..Len(columns.labels) :
                        columns.labels[j] \notin Range(FrameColumns(rows))

to_csv(rows, columns, header, index_label) ==
    LET cols == IF columns.given THEN columns.labels ELSE FrameColumns(rows)
    IN  [header |-> IF header THEN <<index_label>> \o cols ELSE <<>>,
         rows   |-> [k \in 1..Len(rows) |->
                       <<k - 1>> \o [j \in 1..Len(cols) |->
                                       IF cols[j] \in DOMAIN rows[k] THEN rows[k][cols[j]]
                                       ELSE NaN]]]

columns_to_write == IF ~args.details THEN [given |-> TRUE, labels |-> SummaryColumns]
                    ELSE AllColumns

---------------------------------------------------------------------------
(* Inputs *)

\* Laps in one file, at most
MaxLapsPerFile == 2

\* Trackpoints in one lap, at most
MaxSamples == 3

SeqsUpTo(S, n) == UNION {[1..k -> S] : k \in 0..n}

SortedSeqs(S, n) == {s \in [1..n -> S] : \A k \in 1..(n - 1) : s[k] <= s[k + 1]}

West == <<-97, 33>>

East == <<77, 28>>

\* Time texts (seconds), heart rates, and decimal texts (tenths) of distance and
\* total time: 0.9 truncates to 0
TimeValues == 0..3

BpmValues == {0, 1, 2}

DistanceTexts == {0, 9, 10, 270}

TotalTimeTexts == {0, 9, 10, 30}

EvenTimes(n) == [k \in 1..n |-> k - 1]

SteadyBpm(n) == [k \in 1..n |-> 1 + (k % 2)]

SteadyDistance(n) == [k \in 1..n |-> 10 * (k - 1)]

\* One well-formed lap per time-ordered series of stamps, with and without coordinates
LapsByTime ==
    UNION {{RawLap(pos, 20, SteadyBpm(n), SteadyDistance(n), t) :
              t \in SortedSeqs(TimeValues, n), pos \in {<<>>, <<West>>, <<East>>}} :
           n \in 1..MaxSamples}

LapsByBpm ==
    UNION {{RawLap(<<West>>, 20, b, SteadyDistance(n), EvenTimes(n)) :
              b \in [1..n -> BpmValues]} : n \in 1..MaxSamples}

LapsByDistance ==
    UNION {{RawLap(<<>>, total, SteadyBpm(n), d, EvenTimes(n)) :
              d \in SortedSeqs(DistanceTexts, n), total \in TotalTimeTexts} :
           n \in 1..MaxSamples}

\* Laps whose trackpoints lack values: every triple of lengths, the empty lap too
LapsByLength ==
    {RawLap(<<East>>, 20, SteadyBpm(a), SteadyDistance(b), EvenTimes(c)) :
        a \in 0..MaxSamples, b \in 0..MaxSamples, c \in 0..MaxSamples}

OutdoorLap == RawLap(<<West>>, 30, <<1, 1, 2>>, <<0, 10, 20>>, <<0, 1, 2>>)

IndoorLap == RawLap(<<>>, 9, <<2, 2>>, <<0, 0>>, <<1, 3>>)

FlatlineLap == RawLap(<<East>>, 20, <<0, 0, 1>>, <<0, 10, 20>>, <<0, 2, 3>>)

BrokenLap == RawLap(<<West>>, 20, <<1>>, <<0, 10>>, <<0, 1>>)

Catalogue == {OutdoorLap, IndoorLap, FlatlineLap, BrokenLap}

PathB == <<"runs", "b.tcx">>

PathA == <<"runs", "a.tcx">>

Paths == {PathB, PathA}

TreadmillOptions ==
    {TreadmillOption(FALSE, <<>>), TreadmillOption(TRUE, <<>>),
     TreadmillOption(TRUE, <<0>>), TreadmillOption(TRUE, <<8>>)}

DefaultArgs ==
    [treadmill |-> NoTreadmill, details |-> FALSE, columns |-> TRUE, local_time |-> TRUE]

\* args after start-up: local_time is the option's default unless timezonefinder or
\* pytz is not installed
AllArgs ==
    [treadmill : TreadmillOptions, details : BOOLEAN, columns : BOOLEAN,
     local_time : BOOLEAN]

NoFault == [kind |-> "", in |-> "", lap |-> 0]

NoOutput == [header |-> <<>>, rows |-> <<>>]

Start ==
    /\ pc = "read_tcx_files"
    /\ idx = 1
    /\ all_laps = <<>>
    /\ laps = <<>>
    /\ all_laps_data = <<>>
    /\ first_half = <<>>
    /\ second_half = <<>>
    /\ stderr = <<>>
    /\ stdout = NoOutput
    /\ fault = NoFault

\* Several files of several laps each
InitFiles ==
    /\ args = DefaultArgs
    /\ fs \in [Paths -> SeqsUpTo(Catalogue, MaxLapsPerFile)]
    /\ file_list \in {<<PathB, PathA>>, <<PathA, PathB>>}

\* No file at all
InitNoFile ==
    /\ args \in AllArgs
    /\ fs = [p \in Paths |-> <<>>]
    /\ file_list = <<>>

\* One file of one lap, under every setting of the options
InitOneLap ==
    /\ args \in AllArgs
    /\ \E lap \in LapsByTime \cup LapsByBpm \cup LapsByDistance \cup LapsByLength :
          fs = [p \in Paths |-> IF p = PathB THEN <<lap>> ELSE <<>>]
    /\ file_list = <<PathB>>

Init == Start /\ (InitFiles \/ InitNoFile \/ InitOneLap)

---------------------------------------------------------------------------
(* read_tcx_files *)

\* A reader that puts the laps of each file before those read so far
ReadLapsInFront(acc, lap_file, file_laps) ==
    [k \in 1..Len(file_laps) |-> <<lap_file, file_laps[k]>>] \o acc

\* for lap in file_laps: all_laps.append((lap_file, lap))
ReadLaps(acc, lap_file, file_laps) ==
    acc \o [k \in 1..Len(file_laps) |-> <<lap_file, file_laps[k]>>]

ReadFile ==
    /\ pc = "read_tcx_files"
    /\ idx <= Len(file_list)
    /\ all_laps' = ReadLaps(all_laps, basename(file_list[idx]), fs[file_list[idx]])
    /\ idx' = idx + 1
    /\ UNCHANGED <<args, fs, file_list, pc, laps, all_laps_data, first_half,
                   second_half, stderr, stdout, fault>>

ReadReturn ==
    /\ pc = "read_tcx_files"
    /\ idx > Len(file_list)
    /\ pc' = "parse_tcx_lap"
    /\ idx' = 1
    /\ UNCHANGED <<args, fs, file_list, all_laps, laps, all_laps_data, first_half,
                   second_half, stderr, stdout, fault>>

(* parse_tcx_lap *)

ParseTcxLap ==
    /\ pc = "parse_tcx_lap"
    /\ idx <= Len(all_laps)
    /\ LET filename == all_laps[idx][1]
           lap      == all_laps[idx][2]
           a        == Len(lap.HeartRateBpm)
           b        == Len(lap.TrackDistance)
           c        == Len(lap.Time)
       IN  /\ stderr' = IF lap.Positions = <<>> THEN Append(stderr, NoCoordinates)
                        ELSE stderr
           /\ IF LengthCheckRaises(a, b, c)
              THEN /\ fault' = [kind |-> "Exception", in |-> "parse_tcx_lap", lap |-> idx]
                   /\ pc' = "aborted"
                   /\ UNCHANGED <<laps, idx>>
              ELSE IF DataFrameRaises(a, b, c)
              THEN /\ fault' = [kind |-> "ValueError", in |-> "parse_tcx_lap", lap |-> idx]
                   /\ pc' = "aborted"
                   /\ UNCHANGED <<laps, idx>>
              ELSE /\ laps' = Append(laps, LapData(filename, lap))
                   /\ idx' = idx + 1
                   /\ UNCHANGED <<pc, fault>>
    /\ UNCHANGED <<args, fs, file_list, all_laps, all_laps_data, first_half,
                   second_half, stdout>>

ParseTcxLapReturn ==
    /\ pc = "parse_tcx_lap"
    /\ idx > Len(all_laps)
    /\ pc' = "parse_laps"
    /\ idx' = 1
    /\ UNCHANGED <<args, fs, file_list, all_laps, laps, all_laps_data, first_half,
                   second_half, stderr, stdout, fault>>

(* parse_laps: one iteration of `for i, lap in enumerate(laps)` *)

ParseLap ==
    /\ pc = "parse_laps"
    /\ idx <= Len(laps)
    /\ LET lap == laps[idx]
           r   == TryBody(lap)
       IN  /\ first_half' = IF r.first_half THEN FirstHalf(lap) ELSE first_half
           /\ second_half' = IF r.second_half THEN SecondHalf(lap) ELSE second_half
           /\ IF r.exc # NoException /\ ~Caught(r.exc)
              THEN /\ fault' = [kind |-> r.exc, in |-> "parse_laps", lap |-> idx]
                   /\ pc' = "aborted"
                   /\ UNCHANGED <<all_laps_data, idx, stderr>>
              ELSE /\ stderr' = IF r.exc # NoException
                                THEN stderr \o <<DivisionByZero, SkippingLap(idx - 1)>>
                                ELSE stderr
                   /\ all_laps_data' = AppendRow(all_laps_data, r.lap_row)
                   /\ idx' = idx + 1
                   /\ UNCHANGED <<pc, fault>>
    /\ UNCHANGED <<args, fs, file_list, all_laps, laps, stdout>>

ParseLapsReturn ==
    /\ pc = "parse_laps"
    /\ idx > Len(laps)
    /\ pc' = "csv_output"
    /\ UNCHANGED <<args, fs, file_list, idx, all_laps, laps, all_laps_data, first_half,
                   second_half, stderr, stdout, fault>>

(* print(csv_output(parsed_array)) *)

CsvOutput ==
    /\ pc = "csv_output"
    /\ IF to_csv_raises(all_laps_data, columns_to_write)
       THEN /\ fault' = [kind |-> "KeyError", in |-> "csv_output", lap |-> 0]
            /\ pc' = "aborted"
            /\ UNCHANGED stdout
       ELSE /\ stdout' = IF args.columns
                         THEN to_csv(all_laps_data, columns_to_write, TRUE, "lap")
                         ELSE to_csv(all_laps_data, columns_to_write, FALSE, "")
            /\ pc' = "done"
            /\ UNCHANGED fault
    /\ UNCHANGED <<args, fs, file_list, idx, all_laps, laps, all_laps_data, first_half,
                   second_half, stderr>>

Next ==
    \/ ReadFile
    \/ ReadReturn
    \/ ParseTcxLap
    \/ ParseTcxLapReturn
    \/ ParseLap
    \/ ParseLapsReturn
    \/ CsvOutput

Spec == Init /\ [][Next]_vars

---------------------------------------------------------------------------
(* What the claims speak of *)

\* parse_laps has returned its report
ReportReturned == pc \in {"csv_output", "done"} \/ fault.in = "csv_output"

\* csv_output has been called
CsvOutputCalled == pc = "done" \/ fault.in = "csv_output"

\* parse_tcx_lap has taken up the k-th lap
TakenUp(k) ==
    \/ pc = "parse_tcx_lap" /\ k < idx
    \/ fault.in = "parse_tcx_lap" /\ k <= fault.lap
    \/ pc \in {"parse_laps", "csv_output", "done"}
    \/ fault.in \in {"parse_laps", "csv_output"}

Lengths(k) ==
    <<Len(all_laps[k][2].HeartRateBpm), Len(all_laps[k][2].TrackDistance),
      Len(all_laps[k][2].Time)>>

WellFormed(k) == Lengths(k)[1] = Lengths(k)[2] /\ Lengths(k)[2] = Lengths(k)[3]

\* The laps of the files of the list, file after file, each file in document order
RECURSIVE Encounter(_)
Encounter(list) ==
    IF list = <<>> THEN <<>>
    ELSE [k \in 1..Len(fs[Head(list)]) |-> <<Last(Head(list)), fs[Head(list)][k]>>]
         \o Encounter(Tail(list))

\* The samples of a series at or before (sign = -1), at or after (sign = 1) the
\* middle of its first and last stamps
HalfOf(series, sign) ==
    LET lo == SeqMin(Index(series))
        hi == SeqMax(Index(series))
        In(tp) == IF sign < 0 THEN 2 * tp.Time <= lo + hi ELSE 2 * tp.Time >= lo + hi
    IN  SelectSeq(series, In)

Spread(half) == SeqMax(Column(half, "Distance")) - SeqMin(Column(half, "Distance"))

\* The key whose division is the first of a lap's to meet a zero divisor ("": none)
ZeroDivisorKey(lap) ==
    LET early == HalfOf(lap.Trackpoints_series, -1)
        late  == HalfOf(lap.Trackpoints_series, 1)
        measured == ~args.treadmill.set \/ args.treadmill.pace = 0
    IN  IF measured /\ lap.TotalTimeSeconds = 0 THEN "Speed (m/s)"
        ELSE IF SeqSum(Column(early, "Bpm")) = 0 THEN "1st half speed/avg. BPM ratio"
        ELSE IF SeqSum(Column(late, "Bpm")) = 0 THEN "2nd half speed/avg. BPM ratio"
        ELSE IF measured /\ Spread(early) = 0 THEN "1st/2nd half drift"
        ELSE ""

Rows == 1..Len(all_laps_data)

SpeedKeys == {"Speed (m/s)", "1st half speed (m/s)", "2nd half speed (m/s)"}

PaceOf == [k \in SpeedKeys |->
             CASE k = "Speed (m/s)" -> "Pace (min:mi)"
               [] k = "1st half speed (m/s)" -> "1st half pace (min:mi)"
               [] k = "2nd half speed (m/s)" -> "2nd half pace (min:mi)"]

Complete(row) == DOMAIN row = Range(RowKeys)

---------------------------------------------------------------------------
(* C1 *)

\* C1: a lap whose heart-rate sequence and distance sequence differ in length is left
\* out of the report without a fault that ends the run: parse_tcx_lap does not abort
\* on it, and the run ends with a report that holds a row for every well-formed lap
\* and none for the malformed ones.
C1_MalformedLapIsSkipped ==
    /\ \A k \in 1..Len(all_laps) :
          Lengths(k)[1] # Lengths(k)[2] => ~(fault.in = "parse_tcx_lap" /\ fault.lap = k)
    /\ pc = "done" =>
          Len(all_laps_data) = Cardinality({k \in 1..Len(all_laps) : WellFormed(k)})

(* C2 *)

\* C2: the length check of parse_tcx_lap raises its Exception for a lap exactly when
\* the lengths of Bpm, Distance and Time are not all equal.
C2_LengthCheckRejectsUnequalLengths ==
    \A k \in 1..Len(all_laps) :
        TakenUp(k) =>
            (~WellFormed(k) <=>
                (fault.in = "parse_tcx_lap" /\ fault.lap = k /\ fault.kind = "Exception"))

(* C3 *)

C4_HalvesAreInclusive ==
    /\ \A k \in 1..Len(laps) :
          LET series == laps[k].Trackpoints_series
          IN  series # <<>> =>
                /\ 2 * lap_halftime_value(laps[k]) = SeqMin(Index(series)) + SeqMax(Index(series))
                /\ FirstHalf(laps[k]) = HalfOf(series, -1)
                /\ SecondHalf(laps[k]) = HalfOf(series, 1)
                /\ Len(FirstHalf(laps[k])) + Len(SecondHalf(laps[k])) >= Len(series)
                /\ SeqMin(Index(series)) = SeqMax(Index(series)) =>
                      FirstHalf(laps[k]) = series /\ SecondHalf(laps[k]) = series
    /\ \A k \in Rows :
          /\ (pc = "parse_laps" /\ idx = k + 1 /\ "1st half distance" \in DOMAIN all_laps_data[k])
                => first_half = HalfOf(laps[k].Trackpoints_series, -1)
          /\ (pc = "parse_laps" /\ idx = k + 1 /\ "2nd half distance" \in DOMAIN all_laps_data[k])
                => second_half = HalfOf(laps[k].Trackpoints_series, 1)

\* A lap has been split whose middle sample is stamped exactly at halftime
C4_Witness ==
    /\ pc = "parse_laps"
    /\ idx > 1
    /\ Len(laps[idx - 1].Trackpoints_series) = 3
    /\ Complete(all_laps_data[idx - 1])
    /\ Len(first_half) = 2
    /\ Len(second_half) = 2
    /\ Last(first_half) = second_half[1]

(* C5 *)

\* C5: the rows of the report are in encounter order: row k is the row of the k-th
\* lap of the files taken in the order of the file list, each file's laps in document
\* order, whatever the names of the files; so are the lines of the CSV.
C5_EncounterOrder ==
    /\ pc # "read_tcx_files" => all_laps = Encounter(file_list)
    /\ \A k \in 1..Len(laps) :
          laps[k] = LapData(Encounter(file_list)[k][1], Encounter(file_list)[k][2])
    /\ \A k \in Rows :
          /\ all_laps_data[k]["Filename"] = Encounter(file_list)[k][1]
          /\ "Trackpoints" \in DOMAIN all_laps_data[k] =>
                all_laps_data[k]["Trackpoints"] =
                    LapData("", Encounter(file_list)[k][2]).Trackpoints_series
    /\ pc = "done" =>
          /\ Len(stdout.rows) = Len(Encounter(file_list))
          /\ \A k \in 1..Len(stdout.rows) :
                /\ stdout.rows[k][1] = k - 1
                /\ stdout.rows[k][2] = Encounter(file_list)[k][1]

\* A report of the laps of two files, the file named b.tcx given before a.tcx
C5_Witness ==
    /\ pc = "done"
    /\ file_list = <<PathB, PathA>>
    /\ Len(fs[PathB]) = 2
    /\ Len(fs[PathA]) = 2
    /\ fs[PathB][1] # fs[PathB][2]
    /\ Len(stdout.rows) = 4

(* C6 *)

IsPaceSpeed(speed, pace) == pace # 0 /\ speed = Rat(160934, 6000 * pace)

\* C6 as stated: whenever the treadmill option is given, with or without a value,
\* every speed of every row is 1 / (pace * 60 / 1609.34).
C6_GivenOptionFixesSpeed ==
    args.treadmill.set =>
        \A k \in Rows : \A key \in SpeedKeys \cap DOMAIN all_laps_data[k] :
            IsPaceSpeed(all_laps_data[k][key], args.treadmill.pace)

\* C6, amended: whenever a treadmill pace other than 0 is configured, every speed of
\* every row is 1 / (pace * 60 / 1609.34), whatever the lap; when the option is
\* absent or its value is 0, the speeds are the measured ones: distance over the
\* declared total time, half distance over half of it.
C6_NonZeroPaceFixesSpeed ==
    \A k \in Rows :
        LET row == all_laps_data[k]
        IN  IF args.treadmill.set /\ args.treadmill.pace # 0
            THEN \A key \in SpeedKeys \cap DOMAIN row :
                    IsPaceSpeed(row[key], args.treadmill.pace)
            ELSE /\ "Speed (m/s)" \in DOMAIN row =>
                      row["Speed (m/s)"] = Rat(row["Total distance"], row["Total time"])
                 /\ "1st half speed (m/s)" \in DOMAIN row =>
                      row["1st half speed (m/s)"] =
                          Rat(2 * Spread(HalfOf(laps[k].Trackpoints_series, -1)), row["Total time"])
                 /\ "2nd half speed (m/s)" \in DOMAIN row =>
                      row["2nd half speed (m/s)"] =
                          Rat(2 * Spread(HalfOf(laps[k].Trackpoints_series, 1)), row["Total time"])

\* A complete row of a lap that covered ground, under a pace given by value
C6_Witness ==
    /\ args.treadmill.set
    /\ args.treadmill.pace \notin {0, TREADMILL_CONST}
    /\ \E k \in Rows :
          /\ Complete(all_laps_data[k])
          /\ all_laps_data[k]["Total distance"] > 0
          /\ all_laps_data[k]["1st half distance"] # all_laps_data[k]["2nd half distance"]

(* C7 *)

\* C7: begin and end of a row are both converted to the zone of the lap's
\* coordinates (coordinates present and local time enabled) or both left as UTC, and
\* the duration is the UTC instant of the last sample less that of the first.
C7_DurationUnchangedByLocalTime ==
    \A k \in Rows :
        LET row    == all_laps_data[k]
            series == laps[k].Trackpoints_series
            b      == row["Beginning time"]
            e      == row["End time"]
        IN  /\ IF laps[k].Lap_coords # <<>> /\ args.local_time
               THEN /\ b.tzinfo.zone = timezone_at(laps[k].Lap_coords[1], laps[k].Lap_coords[2]).zone
                    /\ e.tzinfo.zone = b.tzinfo.zone
                    /\ b.wall - b.tzinfo.utcoffset = series[1].Time
                    /\ e.wall - e.tzinfo.utcoffset = Last(series).Time
               ELSE /\ b = Naive(series[1].Time)
                    /\ e = Naive(Last(series).Time)
            /\ row["Duration"] = Last(series).Time - series[1].Time

\* A row whose begin and end fall on the two sides of a change of the zone's offset
C7_Witness ==
    \E k \in Rows :
        /\ all_laps_data[k]["Beginning time"].tzinfo.zone # ""
        /\ all_laps_data[k]["Beginning time"].tzinfo.utcoffset
              # all_laps_data[k]["End time"].tzinfo.utcoffset
        /\ all_laps_data[k]["Duration"] > 0

(* C8 *)

\* C8: in summary mode csv_output writes, for any report, the 9 summary columns in
\* their order after the index: under the header "lap" and their labels when
\* headers are enabled, with no header row otherwise.
C8_SummaryColumnsForAnyReport ==
    (CsvOutputCalled /\ ~args.details) =>
        /\ pc = "done"
        /\ stdout.header = IF args.columns THEN <<"lap">> \o SummaryColumns ELSE <<>>
        /\ \A k \in 1..Len(stdout.rows) : Len(stdout.rows[k]) = 1 + Len(SummaryColumns)

(* C9 *)

NearestSecond(speed) == RatRound(RatDiv(METERS2MILES, speed))

\* C10: the pace string of every speed is MM:SS, two digits each, SS in 00..59, of
\* the pace in minutes per mile rounded to the nearest second, the minutes not
\* reduced modulo an hour; a speed of zero gives 00:00.
C10_PaceStringIsNearestSecond ==
    \A k \in Rows : \A key \in SpeedKeys :
        PaceOf[key] \in DOMAIN all_laps_data[k] =>
            LET speed == all_laps_data[k][key]
                pace  == all_laps_data[k][PaceOf[key]]
            IN  IF speed.n = 0 THEN pace = <<"0", "0", ":", "0", "0">>
                ELSE pace = Zfill(IntStr(NearestSecond(speed) \div 60), 2) \o <<":">>
                            \o Zfill(IntStr(NearestSecond(speed) % 60), 2)

===========================================================================
